---- MODULE Spec2Model ----
(***************************************************************************)
(* Zone radius filter of Filter-UAS-Zones: the DMS parser, the geodetic    *)
(* centroid matcher, the feature copy and compatibility transform, the     *)
(* title/description assembly, the serialisation written to filtered.json  *)
(* and the interactive variant's shared result slot.                       *)
(*                                                                         *)
(* Python strings are sequences of one-character strings.  A dict key that *)
(* may be absent is a sequence of length 0 (absent) or 1 (present).        *)
(***************************************************************************)
EXTENDS Integers, Sequences, FiniteSets, TLC

(***************************************************************************)
(* str helpers                                                             *)
(***************************************************************************)
Absent == << >>
Some(v) == << v >>
Has(o) == Len(o) = 1
Val(o) == o[1]

Abs(n) == IF n < 0 THEN -n ELSE n

RECURSIVE Pow10(_)
Pow10(n) == IF n = 0 THEN 1 ELSE 10 * Pow10(n - 1)

Ws == {" ", "\t", "\n"}
Digits == {"0", "1", "2", "3", "4", "5", "6", "7", "8", "9"}

DigitVal(c) ==
    CASE c = "0" -> 0 [] c = "1" -> 1 [] c = "2" -> 2 [] c = "3" -> 3
      [] c = "4" -> 4 [] c = "5" -> 5 [] c = "6" -> 6 [] c = "7" -> 7
      [] c = "8" -> 8 [] c = "9" -> 9

DigitChar(d) == <<"0", "1", "2", "3", "4", "5", "6", "7", "8", "9">>[d + 1]

\* float("045") / int of a digit string
RECURSIVE DigitsToNat(_)
DigitsToNat(s) ==
    IF s = << >> THEN 0
    ELSE 10 * DigitsToNat(SubSeq(s, 1, Len(s) - 1)) + DigitVal(s[Len(s)])

\* str(n) for a count as the f-string formats it
RECURSIVE NatToStr(_)
NatToStr(n) ==
    IF n < 10 THEN << DigitChar(n) >>
    ELSE NatToStr(n \div 10) \o << DigitChar(n % 10) >>

\* s[i:].startswith(p), i 1-based
StartsWithAt(s, p, i) ==
    /\ i + Len(p) - 1 <= Len(s)
    /\ \A k \in 1..Len(p) : s[i + k - 1] = p[k]

EndsWith(s, p) ==
    /\ Len(p) <= Len(s)
    /\ StartsWithAt(s, p, Len(s) - Len(p) + 1)

\* s.find(p): the first index at which p occurs, 0 when it does not
Find(s, p) ==
    LET hits == { i \in 1..Len(s) : StartsWithAt(s, p, i) }
    IN  IF hits = {} THEN 0 ELSE CHOOSE i \in hits : \A j \in hits : i <= j

\* the number of non-overlapping occurrences of p in s, left to right
RECURSIVE CountOcc(_, _)
CountOcc(s, p) ==
    LET i == Find(s, p)
    IN  IF i = 0 THEN 0
        ELSE 1 + CountOcc(SubSeq(s, i + Len(p), Len(s)), p)

\* s.split(p)[0]
SplitFirst(s, p) ==
    LET i == Find(s, p) IN IF i = 0 THEN s ELSE SubSeq(s, 1, i - 1)

\* s.strip()
RECURSIVE LStrip(_)
LStrip(s) ==
    IF s # << >> /\ s[1] \in Ws THEN LStrip(Tail(s)) ELSE s
RECURSIVE RStrip(_)
RStrip(s) ==
    IF s # << >> /\ s[Len(s)] \in Ws THEN RStrip(SubSeq(s, 1, Len(s) - 1)) ELSE s
Strip(s) == RStrip(LStrip(s))

\* s.replace(p, r): every non-overlapping occurrence, left to right
RECURSIVE Replace(_, _, _)
Replace(s, p, r) ==
    LET i == Find(s, p)
    IN  IF i = 0 THEN s
        ELSE SubSeq(s, 1, i - 1) \o r
             \o Replace(SubSeq(s, i + Len(p), Len(s)), p, r)

(***************************************************************************)
(* dms_to_decimal                                                          *)
(***************************************************************************)
\* the length of the longest run of characters of class cls starting at s[i]
RECURSIVE Run(_, _, _)
Run(s, i, cls) ==
    IF i <= Len(s) /\ s[i] \in cls THEN 1 + Run(s, i + 1, cls) ELSE 0

DirLetters == {"N", "S", "E", "W", "n", "s", "e", "w"}

\* str.upper() of a direction letter
Upper(c) ==
    CASE c = "n" -> "N" [] c = "s" -> "S" [] c = "e" -> "E" [] c = "w" -> "W"
      [] OTHER -> c

\* re.match(pattern, s, re.VERBOSE | re.IGNORECASE): the pattern is anchored
\* at the start of s only; whatever follows the match is not looked at.
\* Every quantifier's class is disjoint from what must follow it, so the
\* greedy scan, one group after the other, is the match.  g: the groups
\* matched so far; i: the position the next group starts at.
NoMatch == [matched |-> FALSE]

\* (?P<dir>[NSEW])?
MatchDir(s, g, i) ==
    IF i <= Len(s) /\ s[i] \in DirLetters
    THEN [g EXCEPT !.dir = Some(s[i]), !.end = i]
    ELSE [g EXCEPT !.end = i - 1]

\* [\"\s]*
MatchSep3(s, g, i) == MatchDir(s, g, i + Run(s, i, {"\""} \cup Ws))

\* (?:\.\d+)?
MatchFrac(s, g, i) ==
    IF i <= Len(s) /\ s[i] = "." /\ Run(s, i + 1, Digits) > 0
    THEN MatchSep3(s, [g EXCEPT !.frac = SubSeq(s, i + 1, i + Run(s, i + 1, Digits))],
                   i + 1 + Run(s, i + 1, Digits))
    ELSE MatchSep3(s, g, i)

\* (?P<sec>\d+ ...
MatchSec(s, g, i) ==
    IF Run(s, i, Digits) = 0 THEN NoMatch
    ELSE MatchFrac(s, [g EXCEPT !.sec = SubSeq(s, i, i + Run(s, i, Digits) - 1)],
                   i + Run(s, i, Digits))

\* [\'\s]+
MatchSep2(s, g, i) ==
    IF Run(s, i, {"'"} \cup Ws) = 0 THEN NoMatch
    ELSE MatchSec(s, g, i + Run(s, i, {"'"} \cup Ws))

\* (?P<min>\d+)
MatchMin(s, g, i) ==
    IF Run(s, i, Digits) = 0 THEN NoMatch
    ELSE MatchSep2(s, [g EXCEPT !.min = SubSeq(s, i, i + Run(s, i, Digits) - 1)],
                   i + Run(s, i, Digits))

\* [°\s]+
MatchSep1(s, g, i) ==
    IF Run(s, i, {"°"} \cup Ws) = 0 THEN NoMatch
    ELSE MatchMin(s, g, i + Run(s, i, {"°"} \cup Ws))

\* (?P<deg>-?\d+): the digits after the optional sign
MatchDeg(s, g, i) ==
    IF Run(s, i, Digits) = 0 THEN NoMatch
    ELSE MatchSep1(s, [g EXCEPT !.deg = SubSeq(s, i, i + Run(s, i, Digits) - 1)],
                   i + Run(s, i, Digits))

DmsMatch(s) ==
    MatchDeg(s,
             [matched |-> TRUE, minus |-> s # << >> /\ s[1] = "-", deg |-> << >>,
              min |-> << >>, sec |-> << >>, frac |-> << >>, dir |-> Absent,
              end |-> 0],
             IF s # << >> /\ s[1] = "-" THEN 2 ELSE 1)

\* The digits of the seconds' fraction the model keeps.
MaxFracDigits == 1

\* One degree in the model's unit: the results are exact multiples of
\* 1/(3600 * 10^MaxFracDigits) degree.
UnitsPerDegree == 3600 * Pow10(MaxFracDigits)

\* if deg < 0 or (direction and direction.upper() in ("S", "W")), where deg is
\* float(group): float("-0") is -0.0, which is not < 0.
DmsNegate(minus, degVal, dir) ==
    \/ (minus /\ degVal > 0)
    \/ (Has(dir) /\ Upper(Val(dir)) \in {"S", "W"})

\* minutes / 60 + seconds / 3600 in units, for the groups of a match
MinSecUnits(m) ==
    DigitsToNat(m.min) * 60 * Pow10(MaxFracDigits)
    + DigitsToNat(m.sec) * Pow10(MaxFracDigits)
    + (IF Len(m.frac) <= MaxFracDigits
       THEN DigitsToNat(m.frac) * Pow10(MaxFracDigits - Len(m.frac))
       ELSE DigitsToNat(SubSeq(m.frac, 1, MaxFracDigits)))

DmsValue(m) ==
    IF ~m.matched THEN [status |-> "ValueError", neg |-> FALSE, units |-> 0]
    ELSE [status |-> "value",
          neg    |-> DmsNegate(m.minus, DigitsToNat(m.deg), m.dir),
          units  |-> DigitsToNat(m.deg) * UnitsPerDegree + MinSecUnits(m)]

\* The result: a ValueError, or a float given as its sign bit and magnitude.
dms_to_decimal(dms) == DmsValue(DmsMatch(Strip(dms)))

\* the float as a signed number of units (-0.0 and 0.0 are both 0)
Signed(r) == IF r.neg THEN -r.units ELSE r.units

(***************************************************************************)
(* Geometry entries and geometry_matches_search_geodetic                   *)
(***************************************************************************)
\* What shape(geom["horizontalProjection"]) and shapely make of a projection:
\*   "Polygon"  a valid polygon;
\*   "Bowtie"   a self-intersecting polygon: is_valid is False, buffer(0)
\*              repairs it;
\*   "Empty"    a polygon without coordinates: shape() builds it, its centroid
\*              has no x and the matcher's try block raises;
\*   "Unknown"  a type shape() does not know: shape() raises.
\* clat, clon: the centroid (of the repaired polygon), in model units.
ShapeRaises(hp) == hp.type = "Unknown"

\* geod.inv(center_lon, center_lat, centroid.x, centroid.y)[2], in metres: a
\* metric on the model's grid (one arc second is about 30 m).
GeodInv(lat1, lon1, lat2, lon2) ==
    ((Abs(lat1 - lat2) + Abs(lon1 - lon2)) * 30) \div Pow10(MaxFracDigits)

\* A faulty matcher: the comparison is strict, so a centroid at exactly the
\* radius does not match.
geometry_matches_strictly_inside(polygon, center_lat, center_lon, radius_m) ==
    IF polygon.type = "Empty" THEN FALSE
    ELSE GeodInv(center_lat, center_lon, polygon.clat, polygon.clon) < radius_m

\* try: ... return dist <= radius_m  except Exception: return False
geometry_matches_search_geodetic(polygon, center_lat, center_lon, radius_m) ==
    IF polygon.type = "Empty" THEN FALSE
    ELSE GeodInv(center_lat, center_lon, polygon.clat, polygon.clon) <= radius_m

(***************************************************************************)
(* The feature loop of filter_geojson_by_radius / process_geojson /        *)
(* filter_by_circle                                                        *)
(***************************************************************************)
DateTimeRemoved == <<"[", "D", "a", "t", "e", "/", "T", "i", "m", "e", " ", "r", "e", "m", "o", "v", "e", "d", " ", "f", "o", "r", " ", "R", "C", " ", "c", "o", "m", "p", "a", "t", "i", "b", "i", "l", "i", "t", "y", "]">>

\* strip mode (filter_geojson.py): feature.copy(), then the applicability key
\* is popped from the copy when some entry carries a start or an end time.
StripCopy(feature) ==
    LET app == feature.applicability
    IN  IF Has(app) /\ Val(app) # << >>
           /\ \E k \in 1..Len(Val(app)) :
                 Has(Val(app)[k].startDateTime) \/ Has(Val(app)[k].endDateTime)
        THEN [feature EXCEPT !.applicability = Absent,
                             !.description = Some(DateTimeRemoved)]
        ELSE feature

\* app[key] = app[key].replace("Z", "+00:00") when app[key].endswith("Z")
NormalizeTime(t) ==
    IF Has(t) /\ EndsWith(Val(t), <<"Z">>)
    THEN Some(Replace(Val(t), <<"Z">>, <<"+", "0", "0", ":", "0", "0">>))
    ELSE t

NormalizeApp(a) ==
    [a EXCEPT !.startDateTime = NormalizeTime(a.startDateTime),
              !.endDateTime = NormalizeTime(a.endDateTime)]

\* normalize mode (filter_map_geojson.py, interactive_uas_filter.py): the
\* entries of feature_copy["applicability"] are rewritten in place.
NormalizeCopy(feature) ==
    IF Has(feature.applicability)
    THEN [feature EXCEPT !.applicability =
             Some([k \in 1..Len(Val(feature.applicability)) |->
                      NormalizeApp(Val(feature.applicability)[k])])]
    ELSE feature

\* feature.copy() is a shallow copy: the copy's applicability list and its
\* entries are the objects of the input feature.  What the transform writes
\* into an entry is therefore written into the input feature as well; keys
\* set or popped on the copy itself are not.
AfterCopy(mode, feature) ==
    IF mode = "strip" THEN feature ELSE NormalizeCopy(feature)

Transform(mode, feature) ==
    IF mode = "strip" THEN StripCopy(feature) ELSE NormalizeCopy(feature)

\* for geom in feature.get("geometry", []), from entry j on: "match" at the
\* first matching entry (break), "none" when the entries run out, or the
\* exception raised by geom["horizontalProjection"] ("KeyError") or by
\* shape() ("ShapeError"), neither of which is inside a try block.
\* n: the entries looked at.
RECURSIVE ScanGeometry(_, _, _, _, _)
ScanGeometry(geometry, j, lat, lon, radius_m) ==
    IF j > Len(geometry) THEN [res |-> "none", n |-> j - 1]
    ELSE LET hp == geometry[j].horizontalProjection
         IN  IF ~Has(hp) THEN [res |-> "KeyError", n |-> j]
             ELSE IF ShapeRaises(Val(hp)) THEN [res |-> "ShapeError", n |-> j]
             ELSE IF geometry_matches_search_geodetic(Val(hp), lat, lon, radius_m)
                  THEN [res |-> "match", n |-> j]
             ELSE ScanGeometry(geometry, j + 1, lat, lon, radius_m)

\* for feature in geojson.get("features", []), from feature i on.
\* acc: [status, filtered, features (the input's, as the loop leaves them),
\*       looked (per input feature, the geometry entries looked at)].
RECURSIVE FeatureLoop(_, _, _, _, _, _)
FeatureLoop(mode, acc, i, lat, lon, radius_m) ==
    IF i > Len(acc.features) THEN acc
    ELSE LET feature == acc.features[i]
             scan == ScanGeometry(feature.geometry, 1, lat, lon, radius_m)
             seen == [acc.looked EXCEPT ![i] = scan.n]
         IN  IF scan.res \in {"KeyError", "ShapeError"}
             THEN [acc EXCEPT !.status = scan.res, !.looked = seen]
             ELSE IF scan.res = "match"
             THEN FeatureLoop(mode,
                     [acc EXCEPT !.filtered = Append(@, Transform(mode, feature)),
                                 !.features[i] = AfterCopy(mode, feature),
                                 !.looked = seen],
                     i + 1, lat, lon, radius_m)
             ELSE FeatureLoop(mode, [acc EXCEPT !.looked = seen],
                              i + 1, lat, lon, radius_m)

FilterFeatures(mode, features, lat, lon, radius_m) ==
    FeatureLoop(mode,
                [status |-> "ok", filtered |-> << >>, features |-> features,
                 looked |-> [k \in 1..Len(features) |-> 0]],
                1, lat, lon, radius_m)

(***************************************************************************)
(* Title, counts, description                                              *)
(***************************************************************************)
Cropped == <<" ", "-", " ", "c", "r", "o", "p", "p", "e", "d">>
GeoZonesMark == <<" ", "-", " ", "G", "e", "o", "Z", "o", "n", "e", "s">>

\* A faulty count: every feature that carries a tag, whatever the tag.
CountAnyTag(filtered, tag) ==
    Cardinality({ k \in 1..Len(filtered) : Has(filtered[k].otherReasonInfo) })

\* sum(1 for f in filtered if f.get("otherReasonInfo") == tag)
CountTag(filtered, tag) ==
    Cardinality({ k \in 1..Len(filtered) : filtered[k].otherReasonInfo = Some(tag) })

ATM09 == <<"A", "T", "M", "0", "9">>
NFZ == <<"N", "F", "Z">>
NOTAM == <<"N", "O", "T", "A", "M">>

Counts(filtered) ==
    [geozones |-> Len(filtered),
     atm09    |-> CountTag(filtered, ATM09),
     nfz      |-> CountTag(filtered, NFZ),
     notam    |-> CountTag(filtered, NOTAM)]

\* " - cropped - GeoZones[N] - ATM09[a]/NFZ[n]/NOTAM[m]"
Summary(c) ==
    Cropped \o <<" ", "-", " ", "G", "e", "o", "Z", "o", "n", "e", "s", "[">> \o NatToStr(c.geozones) \o <<"]", " ", "-", " ", "A", "T", "M", "0", "9", "[">>
    \o NatToStr(c.atm09) \o <<"]", "/", "N", "F", "Z", "[">> \o NatToStr(c.nfz) \o <<"]", "/", "N", "O", "T", "A", "M", "[">>
    \o NatToStr(c.notam) \o <<"]">>

\* if "title" in filtered_geojson: filtered_geojson["title"] += " - cropped"
NewTitle(title) == IF Has(title) THEN Some(Val(title) \o Cropped) ELSE title

\* desc_original = description.split(" - GeoZones")[0].strip()
NewDescription(description, c) ==
    IF Has(description)
    THEN Some(Strip(SplitFirst(Val(description), GeoZonesMark)) \o Summary(c))
    ELSE description

\* {**{k: v for k, v in geojson.items() if k != "features"}, "features": filtered}
\* with the title and the description updated
Assemble(geojson, filtered) ==
    [title       |-> NewTitle(geojson.title),
     description |-> NewDescription(geojson.description, Counts(filtered)),
     features    |-> filtered]

(***************************************************************************)
(* json.dumps(..., ensure_ascii=False, separators=(",", ":")), the line    *)
(* break substitution, and json.load                                       *)
(*                                                                         *)
(* A text is a sequence of pieces whose concatenation is the file's text:  *)
(* one piece per character, except that a key with its colon ("\"title\":")*)
(* and a type tag are one piece each (no such piece holds '}', ',' or '{').*)
(***************************************************************************)
RECURSIVE Escape(_)
Escape(s) ==
    IF s = << >> THEN << >>
    ELSE (CASE s[1] = "\"" -> <<"\\", "\"">>
            [] s[1] = "\\" -> <<"\\", "\\">>
            [] s[1] = "\n" -> <<"\\", "n">>
            [] s[1] = "\t" -> <<"\\", "t">>
            [] OTHER -> << s[1] >>) \o Escape(Tail(s))

JsonStr(s) == <<"\"">> \o Escape(s) \o <<"\"">>

JsonInt(n) == IF n < 0 THEN <<"-">> \o NatToStr(-n) ELSE NatToStr(n)

\* the texts of ts joined by commas
RECURSIVE Join(_)
Join(ts) ==
    IF ts = << >> THEN << >>
    ELSE IF Len(ts) = 1 THEN ts[1]
    ELSE ts[1] \o <<",">> \o Join(Tail(ts))

\* the members of an object: the absent ones left out
JsonObject(members) ==
    <<"{">> \o Join(SelectSeq(members, LAMBDA m : m # << >>)) \o <<"}">>

JsonArray(items) == <<"[">> \o Join(items) \o <<"]">>

Member(key, text) == << key >> \o text

JsonProjection(hp) ==
    JsonObject(<< Member("\"type\":", <<"\"", hp.type, "\"">>),
                  Member("\"coordinates\":",
                         JsonArray(<< JsonInt(hp.clon), JsonInt(hp.clat) >>)) >>)

JsonGeometry(g) ==
    JsonObject(<< IF Has(g.horizontalProjection)
                  THEN Member("\"horizontalProjection\":",
                              JsonProjection(Val(g.horizontalProjection)))
                  ELSE << >>,
                  Member("\"lowerLimit\":", JsonInt(g.lowerLimit)) >>)

JsonApp(a) ==
    JsonObject(<< IF Has(a.startDateTime)
                  THEN Member("\"startDateTime\":", JsonStr(Val(a.startDateTime)))
                  ELSE << >>,
                  IF Has(a.endDateTime)
                  THEN Member("\"endDateTime\":", JsonStr(Val(a.endDateTime)))
                  ELSE << >> >>)

JsonFeature(f) ==
    JsonObject(<< Member("\"identifier\":", JsonStr(f.identifier)),
                  Member("\"name\":", JsonStr(f.name)),
                  IF Has(f.otherReasonInfo)
                  THEN Member("\"otherReasonInfo\":", JsonStr(Val(f.otherReasonInfo)))
                  ELSE << >>,
                  IF Has(f.applicability)
                  THEN Member("\"applicability\":",
                              JsonArray([k \in 1..Len(Val(f.applicability)) |->
                                            JsonApp(Val(f.applicability)[k])]))
                  ELSE << >>,
                  Member("\"geometry\":",
                         JsonArray([k \in 1..Len(f.geometry) |->
                                       JsonGeometry(f.geometry[k])])),
                  IF Has(f.description)
                  THEN Member("\"description\":", JsonStr(Val(f.description)))
                  ELSE << >> >>)

json_dumps(c) ==
    JsonObject(<< IF Has(c.title)
                  THEN Member("\"title\":", JsonStr(Val(c.title))) ELSE << >>,
                  IF Has(c.description)
                  THEN Member("\"description\":", JsonStr(Val(c.description)))
                  ELSE << >>,
                  Member("\"features\":",
                         JsonArray([k \in 1..Len(c.features) |->
                                       JsonFeature(c.features[k])])) >>)

\* json_str = json_str.replace("},{", "},\n{")
LineBreaks(json_str) ==
    Replace(json_str, <<"}", ",", "{">>, <<"}", ",", "\n", "{">>)

\* the number of backslashes that end just before text[i]
RECURSIVE BackslashesBefore(_, _)
BackslashesBefore(text, i) ==
    IF i > 1 /\ text[i - 1] = "\\" THEN 1 + BackslashesBefore(text, i - 1) ELSE 0

\* json.load's scanner: a quote not escaped by a backslash opens or closes a
\* string, white space between tokens is skipped, a raw control character
\* inside a string is an error ("Invalid control character").  The pieces
\* the model's texts hold outside strings never include a backslash.
Scan(text) ==
    LET n == Len(text)
        quotes == { i \in 1..n : text[i] = "\"" /\ BackslashesBefore(text, i) % 2 = 0 }
        inside == [i \in 1..n |->
                      i \notin quotes /\ Cardinality({ j \in quotes : j < i }) % 2 = 1]
        at == [i \in 1..n |-> << i, text[i] >>]
        kept == SelectSeq(at, LAMBDA p : inside[p[1]] \/ p[2] \notin Ws)
    IN  [ok   |-> /\ Cardinality(quotes) % 2 = 0
                  /\ \A i \in 1..n : inside[i] => text[i] \notin {"\n", "\t"},
         toks |-> [k \in 1..Len(kept) |-> kept[k][2]]]

\* json.load(f) == value: the text scans to the tokens of value's compact
\* encoding (json.dumps is one-to-one on the collections of the model).
JsonLoadsTo(text, value) ==
    LET r == Scan(text) IN r.ok /\ r.toks = json_dumps(value)

(***************************************************************************)
(* Inputs of the model                                                     *)
(***************************************************************************)
\* The features of one catalogue, at most.
MaxFeatures == 2
\* The operations (command runs, or requests of one session) of a behaviour.
MaxRuns == 2

ArcSec == Pow10(MaxFracDigits)

\* The search centre of the runs: 45°50'34"N 9°16'12"E.
LatArg == <<"4", "5", "°", "5", "0", "'", "3", "4", "\"", "N">>
LonArg == <<"9", "°", "1", "6", "'", "1", "2", "\"", "E">>
CenterLat == Signed(dms_to_decimal(LatArg))
CenterLon == Signed(dms_to_decimal(LonArg))

\* A projection whose centroid lies d arc seconds north of the centre.
Projection(type, d) ==
    Some([type |-> type, clat |-> CenterLat + d * ArcSec, clon |-> CenterLon])

GAt == [horizontalProjection |-> Projection("Polygon", 0), lowerLimit |-> 0]
GNear == [horizontalProjection |-> Projection("Polygon", 10), lowerLimit |-> 25]
GFar == [horizontalProjection |-> Projection("Polygon", 100), lowerLimit |-> 60]
GBowtie == [horizontalProjection |-> Projection("Bowtie", 0), lowerLimit |-> 45]
GEmpty == [horizontalProjection |-> Projection("Empty", 0), lowerLimit |-> 0]
GUnknown == [horizontalProjection |-> Projection("Unknown", 0), lowerLimit |-> 0]
GNoKey == [horizontalProjection |-> Absent, lowerLimit |-> 0]

Zone(id, name, tag, app, geometry) ==
    [identifier |-> id, name |-> name, otherReasonInfo |-> tag,
     applicability |-> app, geometry |-> geometry, description |-> Absent]

Window(start, end) == [startDateTime |-> start, endDateTime |-> end]

Zones ==
    { Zone(<<"a">>, <<"A">>, Some(ATM09), Absent, << GAt >>),
      Zone(<<"b">>, <<"B">>, Some(NFZ),
           Some(<< Window(Some(<<"1", "Z">>), Absent) >>), << GFar, GNear >>),
      Zone(<<"c">>, <<"}", ",", "{">>, Absent,
           Some(<< Window(Absent, Absent) >>), << GBowtie >>),
      Zone(<<"d">>, <<"D">>, Some(NOTAM),
           Some(<< Window(Some(<<"2", "+", "0", "1", ":", "0", "0">>), Some(<<"Z", "3", "Z">>)), Window(Absent, Some(<<"4", "Z">>)) >>),
           << GEmpty, GAt >>),
      Zone(<<"e">>, <<"E">>, Some(<<"C", "T", "R">>), Some(<< >>), << GNear, GNoKey >>),
      Zone(<<"f">>, <<"F">>, Some(NFZ), Absent, << GUnknown >>),
      Zone(<<"g">>, <<"G">>, Some(ATM09), Absent, << GFar >>) }

\* The sequences of at most n distinct zones.
RECURSIVE ZoneSeqs(_)
ZoneSeqs(n) ==
    IF n = 0 THEN { << >> }
    ELSE LET shorter == ZoneSeqs(n - 1)
         IN  shorter \cup
             { Append(q, z) : q \in { r \in shorter : Len(r) = n - 1 }, z \in Zones }

Distinct(q) == \A i, j \in 1..Len(q) : i # j => q[i].identifier # q[j].identifier

Catalogues ==
    { [title |-> m[1], description |-> m[2], features |-> q] :
        m \in { <<Absent, Absent>>, <<Some(<<"T">>), Some(<<"D">>)>> },
        q \in { r \in ZoneSeqs(MaxFeatures) : Distinct(r) } }

LatArgs == { LatArg, <<"4", "5", " ", "5", "0">> }
RadiiKm == { 0, 1 }
RadiiM == { 0, 1000 }

NoRun ==
    [op |-> "none", src |-> "none", status |-> "none", latitude_dms |-> << >>,
     latitude |-> [status |-> "none", neg |-> FALSE, units |-> 0],
     lat |-> 0, lon |-> 0, radius_m |-> 0, looked |-> << >>,
     filtered_geojson |-> Absent, served |-> Absent]

\* The threads of the interactive variant's server, one request each.
Threads == {1, 2}
Idle == [pc |-> "idle", op |-> "none", radius |-> 0, filtered |-> Absent,
         json_str |-> << >>, status |-> "none"]

(***************************************************************************)
(* State                                                                   *)
(***************************************************************************)
VARIABLES
    variant,          \* the script: "strip" filter_geojson.py, "normalize"
                      \* filter_map_geojson.py, "interactive" interactive_uas_filter.py
    catalogue,        \* the collection in the input file given to the script
    loaded,           \* what json.load returned, as it was when it returned
    geojson,          \* the loaded collection as it is now (ORIGINAL_GEOJSON)
    CURRENT_GEOJSON,  \* the shared slot of the interactive variant
    fileText,         \* the text of filtered.json, absent before the first write
    written,          \* the collection whose encoding was last written to it
    run,              \* the last operation: its arguments and its outcome
    nRuns,
    threads           \* interactive variant, requests handled concurrently:
                      \* each thread's position and locals

vars == << variant, catalogue, loaded, geojson, CURRENT_GEOJSON, fileText,
           written, run, nRuns, threads >>

Mode == IF variant = "strip" THEN "strip" ELSE "normalize"

Init ==
    /\ variant \in {"strip", "normalize", "interactive"}
    /\ catalogue \in Catalogues
    /\ loaded = catalogue
    /\ geojson = catalogue
    /\ CURRENT_GEOJSON = Absent
    /\ fileText = Absent
    /\ written = Absent
    /\ run = NoRun
    /\ nRuns = 0
    /\ threads = [t \in Threads |-> Idle]

(***************************************************************************)
(* filter_geojson_by_radius / process_geojson: one run of the command      *)
(***************************************************************************)
\* One run: the coordinates are parsed, the input is loaded, the features are
\* filtered; filtered.json is written only when all of that went through.
\* (process_geojson then draws map.html from the emitted features; the map is
\* not part of the model.)
\*
\* with open(input_geojson_path) as f: geojson = json.load(f), for the
\* catalogue or for the filtered.json an earlier run wrote
LoadInput(src) ==
    IF src = "catalogue" THEN [ok |-> TRUE, value |-> catalogue]
    ELSE IF Has(fileText) /\ JsonLoadsTo(Val(fileText), Val(written))
         THEN [ok |-> TRUE, value |-> Val(written)]
         ELSE [ok |-> FALSE, value |-> catalogue]

CliRun(src, latitude_dms, longitude_dms, radius_km) ==
    LET latitude == dms_to_decimal(latitude_dms)
        longitude == dms_to_decimal(longitude_dms)
        radius_m == radius_km * 1000
        input == LoadInput(src)
        res == FilterFeatures(Mode, input.value.features, Signed(latitude),
                              Signed(longitude), radius_m)
        filtered_geojson == Assemble(input.value, res.filtered)
        me == [NoRun EXCEPT !.op = "cli", !.src = src, !.radius_m = radius_m,
                            !.latitude_dms = latitude_dms, !.latitude = latitude]
    IN  /\ variant \in {"strip", "normalize"}
        /\ nRuns < MaxRuns
        /\ src = "filtered.json" => Has(fileText)
        /\ nRuns' = nRuns + 1
        /\ UNCHANGED << variant, catalogue, CURRENT_GEOJSON, threads >>
        /\ IF latitude.status = "ValueError" \/ longitude.status = "ValueError"
           THEN /\ run' = [me EXCEPT !.status = "ValueError"]
                /\ UNCHANGED << loaded, geojson, fileText, written >>
           ELSE IF ~input.ok
           THEN /\ run' = [me EXCEPT !.status = "JSONDecodeError"]
                /\ UNCHANGED << loaded, geojson, fileText, written >>
           ELSE /\ loaded' = input.value
                /\ geojson' = [input.value EXCEPT !.features = res.features]
                /\ run' = [me EXCEPT !.status = res.status,
                                     !.lat = Signed(latitude),
                                     !.lon = Signed(longitude),
                                     !.looked = res.looked,
                                     !.filtered_geojson =
                                        IF res.status = "ok"
                                        THEN Some(filtered_geojson) ELSE Absent]
                /\ IF res.status = "ok"
                   THEN /\ fileText' = Some(LineBreaks(json_dumps(filtered_geojson)))
                        /\ written' = Some(filtered_geojson)
                   ELSE UNCHANGED << fileText, written >>

(***************************************************************************)
(* interactive_uas_filter.py, one request at a time                        *)
(***************************************************************************)
\* filter_by_circle(geojson, lat, lon, radius_m)
filter_by_circle(g, lat, lon, radius_m) ==
    LET res == FilterFeatures("normalize", g.features, lat, lon, radius_m)
    IN  [status |-> res.status, looked |-> res.looked,
         geojson |-> [g EXCEPT !.features = res.features],
         result |-> Assemble(g, res.filtered)]

\* generate_map_html(geojson): the zones the page draws, one per geometry
\* entry, those with the highest lower limit first; the page's own script and
\* the map's location (the centroid of all shapes) are left out.
\* The entries of features i.. in order, each with the name of its feature.
RECURSIVE MapEntries(_, _)
MapEntries(features, i) ==
    IF i > Len(features) THEN << >>
    ELSE [j \in 1..Len(features[i].geometry) |->
             [name |-> features[i].name, geom |-> features[i].geometry[j]]]
         \o MapEntries(features, i + 1)

\* geom["horizontalProjection"] raises KeyError, shape() raises on a type it
\* does not know.
MapEntryRaises(e) ==
    \/ ~Has(e.geom.horizontalProjection)
    \/ ShapeRaises(Val(e.geom.horizontalProjection))

\* zones.sort(key=lambda z: z["lower"], reverse=True): a stable sort.
RECURSIVE SortByLower(_)
SortByLower(zones) ==
    IF zones = << >> THEN << >>
    ELSE SelectSeq(zones, LAMBDA z : \A k \in 1..Len(zones) : zones[k].lower <= z.lower)
         \o SortByLower(SelectSeq(zones, LAMBDA z : \E k \in 1..Len(zones) : zones[k].lower > z.lower))

\* The page, or the exception of the first entry that raises; without shapes
\* RuntimeError is raised, and a map needs a shape with a centroid for its
\* location.
MapPage(entries) ==
    IF \E k \in 1..Len(entries) : MapEntryRaises(entries[k])
    THEN [status |-> IF Has(entries[CHOOSE k \in 1..Len(entries) :
                                       /\ MapEntryRaises(entries[k])
                                       /\ \A h \in 1..(k - 1) : ~MapEntryRaises(entries[h])]
                               .geom.horizontalProjection)
                     THEN "ShapeError" ELSE "KeyError",
          zones |-> << >>]
    ELSE IF entries = << >> THEN [status |-> "RuntimeError", zones |-> << >>]
    ELSE IF \A k \in 1..Len(entries) : Val(entries[k].geom.horizontalProjection).type = "Empty"
    THEN [status |-> "LocationError", zones |-> << >>]
    ELSE [status |-> "ok",
          zones |-> SortByLower([k \in 1..Len(entries) |->
                       [name |-> entries[k].name,
                        geometry |-> Val(entries[k].geom.horizontalProjection),
                        lower |-> entries[k].geom.lowerLimit]])]

generate_map_html(g) == MapPage(MapEntries(g.features, 1))

\* index: the page of the slot's collection, of the original when the slot is
\* empty.  A request that leaves the session's state alone.
index ==
    /\ variant = "interactive"
    /\ run' = [NoRun EXCEPT
                  !.op = "index",
                  !.status = generate_map_html(IF Has(CURRENT_GEOJSON)
                                               THEN Val(CURRENT_GEOJSON)
                                               ELSE geojson).status,
                  !.served = Some(generate_map_html(IF Has(CURRENT_GEOJSON)
                                                    THEN Val(CURRENT_GEOJSON)
                                                    ELSE geojson))]
    /\ UNCHANGED << variant, catalogue, loaded, geojson, CURRENT_GEOJSON,
                    fileText, written, nRuns, threads >>

\* A faulty filter_route: the filter is computed from the slot's collection
\* when the slot holds one.
filter_route_from_current(lat, lon, radius) ==
    LET f == filter_by_circle(IF Has(CURRENT_GEOJSON) THEN Val(CURRENT_GEOJSON)
                              ELSE geojson, lat, lon, radius)
        me == [NoRun EXCEPT !.op = "filter", !.src = "ORIGINAL_GEOJSON",
                            !.lat = lat, !.lon = lon, !.radius_m = radius,
                            !.looked = f.looked]
    IN  /\ variant = "interactive"
        /\ nRuns < MaxRuns
        /\ nRuns' = nRuns + 1
        /\ UNCHANGED << variant, catalogue, loaded, geojson, threads >>
        /\ IF f.status # "ok"
           THEN /\ run' = [me EXCEPT !.status = f.status]
                /\ UNCHANGED << CURRENT_GEOJSON, fileText, written >>
           ELSE IF f.result.features = << >>
           THEN /\ run' = [me EXCEPT !.status = "empty",
                                     !.filtered_geojson = Some(f.result)]
                /\ UNCHANGED << CURRENT_GEOJSON, fileText, written >>
           ELSE /\ run' = [me EXCEPT !.status = "ok",
                                     !.filtered_geojson = Some(f.result)]
                /\ CURRENT_GEOJSON' = Some(f.result)
                /\ fileText' = Some(LineBreaks(json_dumps(f.result)))
                /\ written' = Some(f.result)

\* A faulty filter_route: a result without features is saved like any other.
filter_route_saves_empty(lat, lon, radius) ==
    LET f == filter_by_circle(geojson, lat, lon, radius)
        me == [NoRun EXCEPT !.op = "filter", !.src = "ORIGINAL_GEOJSON",
                            !.lat = lat, !.lon = lon, !.radius_m = radius,
                            !.looked = f.looked]
    IN  /\ variant = "interactive"
        /\ nRuns < MaxRuns
        /\ nRuns' = nRuns + 1
        /\ geojson' = f.geojson
        /\ UNCHANGED << variant, catalogue, loaded, threads >>
        /\ IF f.status # "ok"
           THEN /\ run' = [me EXCEPT !.status = f.status]
                /\ UNCHANGED << CURRENT_GEOJSON, fileText, written >>
           ELSE /\ run' = [me EXCEPT !.status = "ok",
                                     !.filtered_geojson = Some(f.result)]
                /\ CURRENT_GEOJSON' = Some(f.result)
                /\ fileText' = Some(LineBreaks(json_dumps(f.result)))
                /\ written' = Some(f.result)

\* filter_route: the filter is computed from ORIGINAL_GEOJSON; a result
\* without features is answered "empty" and nothing is saved.
filter_route(lat, lon, radius) ==
    LET f == filter_by_circle(geojson, lat, lon, radius)
        me == [NoRun EXCEPT !.op = "filter", !.src = "ORIGINAL_GEOJSON",
                            !.lat = lat, !.lon = lon, !.radius_m = radius,
                            !.looked = f.looked]
    IN  /\ variant = "interactive"
        /\ nRuns < MaxRuns
        /\ nRuns' = nRuns + 1
        /\ geojson' = f.geojson
        /\ UNCHANGED << variant, catalogue, loaded, threads >>
        /\ IF f.status # "ok"
           THEN /\ run' = [me EXCEPT !.status = f.status]
                /\ UNCHANGED << CURRENT_GEOJSON, fileText, written >>
           ELSE IF f.result.features = << >>
           THEN /\ run' = [me EXCEPT !.status = "empty",
                                     !.filtered_geojson = Some(f.result)]
                /\ UNCHANGED << CURRENT_GEOJSON, fileText, written >>
           ELSE /\ run' = [me EXCEPT !.status = "ok",
                                     !.filtered_geojson = Some(f.result)]
                /\ CURRENT_GEOJSON' = Some(f.result)
                /\ fileText' = Some(LineBreaks(json_dumps(f.result)))
                /\ written' = Some(f.result)

reset_route ==
    /\ variant = "interactive"
    /\ nRuns < MaxRuns
    /\ nRuns' = nRuns + 1
    /\ CURRENT_GEOJSON' = Absent
    /\ run' = [NoRun EXCEPT !.op = "reset", !.status = "ok"]
    /\ UNCHANGED << variant, catalogue, loaded, geojson, fileText, written,
                    threads >>

Next ==
    \/ \E src \in {"catalogue", "filtered.json"}, la \in LatArgs, r \in RadiiKm :
          CliRun(src, la, LonArg, r)
    \/ \E r \in RadiiM : filter_route(CenterLat, CenterLon, r)
    \/ reset_route
    \/ index

Spec == Init /\ [][Next]_vars

(***************************************************************************)
(* Properties of one filter operation (Spec)                               *)
(***************************************************************************)
\* The last operation was a filter that ran to its end.
Completed == run.op \in {"cli", "filter"} /\ run.status \in {"ok", "empty"}

\* The collection it assembled.
Out == Val(run.filtered_geojson)

Ids(fs) == [k \in 1..Len(fs) |-> fs[k].identifier]

\* A geometry entry that lies in the search region of the last operation:
\* it has a projection that is a polygon, and the centroid of the (repaired)
\* polygon is at most the radius away from the centre.
InRegion(g) ==
    /\ Has(g.horizontalProjection)
    /\ Val(g.horizontalProjection).type \in {"Polygon", "Bowtie"}
    /\ GeodInv(run.lat, run.lon, Val(g.horizontalProjection).clat,
               Val(g.horizontalProjection).clon) <= run.radius_m

AnyInRegion(f) == \E j \in 1..Len(f.geometry) : InRegion(f.geometry[j])

\* The features of the loaded input that have an entry in the region.
Expected == SelectSeq(loaded.features, AnyInRegion)

\* The last operation was a filter whose coordinates parsed and whose input
\* loaded: it entered the feature loop.
Filtering ==
    run.op \in {"cli", "filter"} /\ run.status \notin {"ValueError", "JSONDecodeError"}

\* The loaded input conforms to the data model: every geometry entry has a
\* horizontal projection that is a polygon shape() can build.
SchemaValid(c) ==
    \A i \in 1..Len(c.features) : \A j \in 1..Len(c.features[i].geometry) :
        /\ Has(c.features[i].geometry[j].horizontalProjection)
        /\ ~ShapeRaises(Val(c.features[i].geometry[j].horizontalProjection))

\* What a finished filter has emitted: exactly the input features that have
\* an entry in the region, each once and in input order, each with all the
\* geometry entries of its input feature.
EmitsExactlyMatching ==
    /\ Ids(Out.features) = Ids(Expected)
    /\ \A k \in 1..Len(Out.features) :
          Out.features[k].geometry = Expected[k].geometry

C2_OriginalUnmodified == geojson = loaded

\* C4: a geometry entry that cannot be processed (no horizontalProjection
\* key, a projection shape() cannot build, an exception while matching) only
\* counts as non-matching: a filter whose coordinates parsed and whose input
\* loaded runs to its end and emits the features that have an entry in the
\* region.
C4_FailureIsLocal ==
    Filtering
        => /\ Completed
           /\ Ids(Out.features) = Ids(Expected)

\* C5: the title of the assembled collection ends in " - cropped" and holds
\* " - cropped" exactly once, also when the input title already ended in it.
C5_TitleCroppedOnce ==
    (Completed /\ Has(Out.title)) =>
        /\ EndsWith(Val(Out.title), Cropped)
        /\ CountOcc(Val(Out.title), Cropped) = 1

\* C6: the description of the assembled collection ends in the summary of
\* this run and holds " - cropped" exactly once and exactly one summary,
\* also when the input description is that of an earlier run's output.
C6_DescriptionCroppedOnce ==
    (Completed /\ Has(Out.description)) =>
        /\ EndsWith(Val(Out.description), Summary(Counts(Out.features)))
        /\ CountOcc(Val(Out.description), Cropped) = 1
        /\ CountOcc(Val(Out.description), GeoZonesMark) = 1

\* The emitted features whose otherReasonInfo is tag.
Tagged(fs, tag) ==
    Len(SelectSeq(fs, LAMBDA f : Has(f.otherReasonInfo) /\ Val(f.otherReasonInfo) = tag))

\* C7: the summary the description ends in reads GeoZones[N] - ATM09[a]/
\* NFZ[n]/NOTAM[m] with N the number of emitted features and a, n, m the
\* numbers of emitted features tagged ATM09, NFZ, NOTAM; a + n + m <= N, with
\* equality exactly when every emitted feature carries one of the three tags.
C7_CountsConsistent ==
    (Completed /\ Has(Out.description)) =>
        LET fs == Out.features
            N == Len(fs)
            a == Tagged(fs, ATM09)
            n == Tagged(fs, NFZ)
            m == Tagged(fs, NOTAM)
        IN  /\ EndsWith(Val(Out.description),
                        <<" ", "-", " ", "G", "e", "o", "Z", "o", "n", "e", "s", "[">> \o NatToStr(N) \o <<"]", " ", "-", " ", "A", "T", "M", "0", "9", "[">>
                        \o NatToStr(a) \o <<"]", "/", "N", "F", "Z", "[">> \o NatToStr(n)
                        \o <<"]", "/", "N", "O", "T", "A", "M", "[">> \o NatToStr(m) \o <<"]">>)
            /\ a + n + m <= N
            /\ (a + n + m = N) <=>
                  \A k \in 1..N : fs[k].otherReasonInfo \in {Some(ATM09), Some(NFZ), Some(NOTAM)}

\* C7's case: two features are emitted, one tagged NFZ and one that carries
\* none of the three tags, so the tag counts add up to less than N.
C7_Witness ==
    /\ Completed
    /\ Has(Out.description)
    /\ Len(Out.features) = 2
    /\ Tagged(Out.features, NFZ) = 1
    /\ Tagged(Out.features, ATM09) + Tagged(Out.features, NOTAM) = 0

\* the line breaks of a text
LineBreakCount(text) == Len(SelectSeq(text, LAMBDA c : c = "\n"))

\* C8: the text in filtered.json has a line break after the comma between two
\* features and nowhere else (one less than the features), and loads back to
\* the collection that was assembled.
C8_BreaksOnlyBetweenFeatures ==
    Has(fileText) =>
        /\ LineBreakCount(Val(fileText)) =
              (IF Val(written).features = << >> THEN 0
               ELSE Len(Val(written).features) - 1)
        /\ JsonLoadsTo(Val(fileText), Val(written))

(***************************************************************************)
(* dms_to_decimal over a family of argument strings (SpecDms): one run of  *)
(* the command per behaviour, on a one-feature catalogue                   *)
(***************************************************************************)
\* The strings <lead><sign><deg><sep><min><sep><sec><sep><dir><trail>, each
\* with what it denotes: whether it is a DMS coordinate as a whole (nothing
\* trails), whether its degree is written with a minus sign, its direction
\* letter, and its magnitude in model units.
DmsForms ==
    { [text       |-> sign \o deg[1] \o sep[1] \o mn[1] \o sep[2] \o sec[1]
                      \o sep[3] \o dir \o trail,
       wellformed |-> trail = << >>,
       minus      |-> sign # << >>,
       dir        |-> dir,
       units      |-> deg[2] * UnitsPerDegree + mn[2] * 60 * ArcSec + sec[2]] :
        sign \in { << >>, <<"-">> },
        deg \in { << <<"0">>, 0 >>, << <<"4", "5">>, 45 >> },
        mn \in { << <<"0">>, 0 >>, << <<"3", "0">>, 30 >> },
        sec \in { << <<"0">>, 0 >>, << <<"3", "4">>, 34 * ArcSec >>,
                  << <<"3", "4", ".", "5">>, 34 * ArcSec + 5 * (ArcSec \div 10) >> },
        sep \in { << <<"°">>, <<"'">>, <<"\"">> >>, << <<" ">>, <<" ">>, <<" ">> >>,
                  << <<" ">>, <<" ">>, << >> >> },
        dir \in { << >>, <<"N">>, <<"S">>, <<"E">>, <<"W">>, <<"s">>, <<"w">> },
        trail \in { << >>, <<"x">>, <<"x", " ", "W">> } }

\* Strings with a group missing.
DmsBroken ==
    { [text |-> t, wellformed |-> FALSE, minus |-> FALSE, dir |-> << >>, units |-> 0] :
        t \in { <<"4", "5", " ", "5", "0">>, <<"4", "5">>, << >>, <<"N">>, <<"4", "5", "°", "5", "0", "'">>, <<"4", "5", ".", "5", " ", "5", "0", " ", "3", "4">>,
                <<"-", " ", "4", "5", " ", "5", "0", " ", "3", "4">> } }

DmsInputs == DmsForms \cup DmsBroken

DmsCatalogue ==
    [title |-> Some(<<"T">>), description |-> Some(<<"D">>),
     features |-> << Zone(<<"a">>, <<"A">>, Some(ATM09), Absent, << GAt >>) >>]

InitDms ==
    /\ Init
    /\ variant \in {"strip", "normalize"}
    /\ catalogue = DmsCatalogue

NextDms ==
    /\ nRuns = 0
    /\ \E d \in DmsInputs : CliRun("catalogue", d.text, LonArg, 1)

SpecDms == InitDms /\ [][NextDms]_vars

\* What the argument string of the last run denotes.
Denoted == { d \in DmsInputs : run.op = "cli" /\ d.text = run.latitude_dms }

\* C9: for a DMS string the parser accepts, the result is the magnitude
\* |deg| + min/60 + sec/3600, negated (once) when the degree was written
\* negative or the direction letter is S or W in either case, and not
\* negated otherwise.
C9_SignAndMagnitude ==
    \A d \in Denoted :
        (d.wellformed /\ run.latitude.status = "value") =>
            run.lat = IF d.minus \/ d.dir \in { <<"S">>, <<"W">>, <<"s">>, <<"w">> }
                      THEN -d.units ELSE d.units

\* C10: a string that is not a DMS coordinate as a whole makes the run fail
\* with the format error, no value is parsed out of a part of it, and no
\* output file is written.
C10_RejectsMalformed ==
    \A d \in Denoted :
        ~d.wellformed =>
            /\ run.status = "ValueError"
            /\ run.latitude.status = "ValueError"
            /\ ~Has(fileText)

(***************************************************************************)
(* interactive_uas_filter.py, requests handled by concurrent threads       *)
(* (SpecWeb): app.run() serves each request in a thread of its own         *)
(***************************************************************************)
\* json.dumps(None)
JsonNull == <<"n", "u", "l", "l">>

\* What a file holds after text is written at offset 0 by a handle that was
\* opened (and the file truncated) before old was written through another.
Overlay(old, text) ==
    IF Len(text) >= Len(old) THEN text
    ELSE text \o SubSeq(old, Len(text) + 1, Len(old))

Set(t, rec) == threads' = [threads EXCEPT ![t] = rec]

\* filter_route, line 272-285: filtered = filter_by_circle(ORIGINAL_GEOJSON, ...)
\* and the empty answer
WebFilter(t, radius) ==
    /\ threads[t].pc = "idle"
    /\ geojson' = filter_by_circle(geojson, CenterLat, CenterLon, radius).geojson
    /\ IF filter_by_circle(geojson, CenterLat, CenterLon, radius).status # "ok"
       THEN Set(t, [threads[t] EXCEPT !.pc = "done", !.op = "filter",
                                      !.radius = radius, !.status = "error"])
       ELSE IF filter_by_circle(geojson, CenterLat, CenterLon, radius).result.features = << >>
       THEN Set(t, [threads[t] EXCEPT !.pc = "done", !.op = "filter",
                                      !.radius = radius, !.status = "empty"])
       ELSE Set(t, [threads[t] EXCEPT
                       !.pc = "assign", !.op = "filter", !.radius = radius,
                       !.filtered = Some(filter_by_circle(geojson, CenterLat,
                                                          CenterLon, radius).result)])
    /\ UNCHANGED << variant, catalogue, loaded, CURRENT_GEOJSON, fileText,
                    written, run, nRuns >>

\* line 287: CURRENT_GEOJSON = filtered
WebAssign(t) ==
    /\ threads[t].pc = "assign"
    /\ CURRENT_GEOJSON' = threads[t].filtered
    /\ Set(t, [threads[t] EXCEPT !.pc = "open"])
    /\ UNCHANGED << variant, catalogue, loaded, geojson, fileText, written,
                    run, nRuns >>

\* line 289: open(FILTERED_FILE, "w") truncates the file
WebOpen(t) ==
    /\ threads[t].pc = "open"
    /\ fileText' = Some(<< >>)
    /\ Set(t, [threads[t] EXCEPT !.pc = "dumps"])
    /\ UNCHANGED << variant, catalogue, loaded, geojson, CURRENT_GEOJSON,
                    written, run, nRuns >>

\* line 290-295: json_str = json.dumps(CURRENT_GEOJSON, ...), with the line
\* breaks: the global is read again
WebDumps(t) ==
    /\ threads[t].pc = "dumps"
    /\ Set(t, [threads[t] EXCEPT
                  !.pc = "write",
                  !.json_str = IF Has(CURRENT_GEOJSON)
                               THEN LineBreaks(json_dumps(Val(CURRENT_GEOJSON)))
                               ELSE LineBreaks(JsonNull)])
    /\ UNCHANGED << variant, catalogue, loaded, geojson, CURRENT_GEOJSON,
                    fileText, written, run, nRuns >>

\* line 296-298: f.write(json_str), the file closed, the answer "ok"
WebWrite(t) ==
    /\ threads[t].pc = "write"
    /\ fileText' = Some(Overlay(Val(fileText), threads[t].json_str))
    /\ Set(t, [threads[t] EXCEPT !.pc = "done", !.status = "ok"])
    /\ UNCHANGED << variant, catalogue, loaded, geojson, CURRENT_GEOJSON,
                    written, run, nRuns >>

\* reset_route
WebReset(t) ==
    /\ threads[t].pc = "idle"
    /\ CURRENT_GEOJSON' = Absent
    /\ Set(t, [threads[t] EXCEPT !.pc = "done", !.op = "reset", !.status = "ok"])
    /\ UNCHANGED << variant, catalogue, loaded, geojson, fileText, written,
                    run, nRuns >>

\* The catalogues of the sessions: a title, a description and two zones whose
\* geometry entries all have a projection.
WebCatalogues ==
    { c \in Catalogues : Has(c.title) /\ Len(c.features) = MaxFeatures /\ SchemaValid(c) }

InitWeb ==
    /\ Init
    /\ variant = "interactive"
    /\ catalogue \in WebCatalogues

NextWeb ==
    \E t \in Threads :
        \/ \E r \in RadiiM : WebFilter(t, r)
        \/ WebAssign(t)
        \/ WebOpen(t)
        \/ WebDumps(t)
        \/ WebWrite(t)
        \/ WebReset(t)

SpecWeb == InitWeb /\ [][NextWeb]_vars

\* C3: concurrent requests do not interleave their writes: what a filter
\* request writes to filtered.json is the encoding of its own filtered
\* result, and once two filter requests that both matched are done, the
\* slot and the file hold the result of the same request.
C3_NoInterleavedWrites ==
    /\ \A t \in Threads :
          (threads[t].op = "filter" /\ threads[t].pc \in {"write", "done"}
           /\ Has(threads[t].filtered))
             => threads[t].json_str = LineBreaks(json_dumps(Val(threads[t].filtered)))
    /\ (\A t \in Threads : threads[t].pc = "done" /\ Has(threads[t].filtered))
          => /\ Has(CURRENT_GEOJSON)
             /\ fileText = Some(LineBreaks(json_dumps(Val(CURRENT_GEOJSON))))

(***************************************************************************)
(* Filtering the output of a run again (Spec)                              *)
(***************************************************************************)
IdSet(fs) == { fs[k].identifier : k \in 1..Len(fs) }

\* The step is a run of the command on filtered.json, with the centre and
\* the radius of the run before it, which wrote that file.
FiltersItsOutputAgain ==
    /\ run.op = "cli" /\ run.status = "ok"
    /\ run'.op = "cli" /\ run'.src = "filtered.json"
    /\ run'.latitude_dms = run.latitude_dms
    /\ run'.radius_m = run.radius_m

\* C11: filtering is idempotent on the identifier set: a run of the command
\* on the output of a run, with the same centre, radius and policy, runs to
\* its end and emits the same set of feature identifiers as the first run.
C11_Idempotent ==
    [][FiltersItsOutputAgain =>
          /\ run'.status = "ok"
          /\ IdSet(Val(run'.filtered_geojson).features)
                = IdSet(Val(run.filtered_geojson).features)]_vars

(***************************************************************************)
(* The strip transform (Spec, filter_geojson.py)                           *)
(***************************************************************************)
\* Some applicability entry of the feature carries a start or an end time.
CarriesDateTime(f) ==
    /\ Has(f.applicability)
    /\ \E k \in 1..Len(Val(f.applicability)) :
          \/ Has(Val(f.applicability)[k].startDateTime)
          \/ Has(Val(f.applicability)[k].endDateTime)

\* C12: in strip mode every emitted feature is without the applicability
\* key, whatever its value was in the input feature, and its description is
\* the fixed string exactly when some applicability entry of the input
\* feature carried a startDateTime or an endDateTime (it is the input
\* feature's description otherwise).
C12_StripRemovesApplicability ==
    (variant = "strip" /\ Completed) =>
        \A k \in 1..Len(Out.features) :
            /\ ~Has(Out.features[k].applicability)
            /\ Out.features[k].description =
                  IF CarriesDateTime(Expected[k]) THEN Some(DateTimeRemoved)
                  ELSE Expected[k].description

(***************************************************************************)
(* The session of the interactive variant, one request at a time (Spec)    *)
(***************************************************************************)
\* The features of the loaded collection that have a geometry entry in the
\* search region of the request r.
MatchesRequest(r, f) ==
    \E j \in 1..Len(f.geometry) :
        /\ Has(f.geometry[j].horizontalProjection)
        /\ Val(f.geometry[j].horizontalProjection).type \in {"Polygon", "Bowtie"}
        /\ GeodInv(r.lat, r.lon, Val(f.geometry[j].horizontalProjection).clat,
                   Val(f.geometry[j].horizontalProjection).clon) <= r.radius_m

RequestedIds(r) ==
    { loaded.features[k].identifier :
        k \in { h \in 1..Len(loaded.features) : MatchesRequest(r, loaded.features[h]) } }

\* A filter request that matched fills the slot with the result of filtering
\* the collection as it was loaded, with the request's circle: the features
\* of the loaded collection in that circle, whatever the slot held before,
\* under a title that carries " - cropped" once.
SlotFromOriginal ==
    (run'.op = "filter" /\ run'.status = "ok") =>
        /\ CURRENT_GEOJSON' =
              Some(filter_by_circle(loaded, run'.lat, run'.lon, run'.radius_m).result)
        /\ IdSet(Val(CURRENT_GEOJSON').features) = RequestedIds(run')
        /\ Has(Val(CURRENT_GEOJSON').title) =>
              CountOcc(Val(Val(CURRENT_GEOJSON').title), Cropped) = 1

\* C13: requests handled one at a time: a filter request that matched sets
\* the slot to the result of filtering the loaded original collection with
\* its own parameters (never an earlier filtered result, so a larger circle
\* brings back features an earlier request excluded, and the title carries
\* " - cropped" once), a filter request that matched nothing leaves the
\* slot as it is, a reset empties it, and while the slot is empty the index
\* route serves the page of the collection as it was loaded.
C13_SlotFromOriginal ==
    [][/\ SlotFromOriginal
       /\ (run'.op = "filter" /\ run'.status = "empty")
             => CURRENT_GEOJSON' = CURRENT_GEOJSON
       /\ run'.op = "reset" => CURRENT_GEOJSON' = Absent
       /\ run'.op = "index" =>
             /\ CURRENT_GEOJSON' = CURRENT_GEOJSON
             /\ run'.served = Some(generate_map_html(IF Has(CURRENT_GEOJSON)
                                                     THEN Val(CURRENT_GEOJSON)
                                                     ELSE loaded))]_vars

\* C13's case: a filter request matched (its result is in filtered.json, and
\* it rewrote a timestamp of the original), a reset emptied the slot, and the
\* index route then served the page of the loaded collection.
C13_Witness ==
    /\ run.op = "index"
    /\ run.status = "ok"
    /\ ~Has(CURRENT_GEOJSON)
    /\ Has(fileText)
    /\ geojson # loaded
    /\ run.served = Some(generate_map_html(loaded))
    /\ Len(Val(run.served).zones) > Len(generate_map_html(Val(written)).zones)

\* C14: a filter request answers "empty" exactly when no feature of the
\* collection is in its circle and "ok" otherwise (it answers one of the two
\* whenever the collection conforms to the data model); answering "empty" it
\* leaves the slot and filtered.json as they are, answering "ok" it puts its
\* result into both.
C14_EmptyLeavesSaved ==
    [][run'.op = "filter" =>
          /\ SchemaValid(loaded) => run'.status \in {"ok", "empty"}
          /\ run'.status \in {"ok", "empty"} =>
                /\ run'.status = "empty" <=> RequestedIds(run') = {}
                /\ run'.status = "empty" <=> Val(run'.filtered_geojson).features = << >>
          /\ run'.status = "empty" =>
                UNCHANGED << CURRENT_GEOJSON, fileText, written >>
          /\ run'.status = "ok" =>
                /\ CURRENT_GEOJSON' = run'.filtered_geojson
                /\ fileText' = Some(LineBreaks(json_dumps(Val(run'.filtered_geojson))))]_vars

\* C14's case: a filter request has answered "empty" while the slot and the
\* file hold the result an earlier request saved.
C14_Witness ==
    /\ run.op = "filter"
    /\ run.status = "empty"
    /\ Has(CURRENT_GEOJSON)
    /\ Val(CURRENT_GEOJSON).features # << >>
    /\ fileText = Some(LineBreaks(json_dumps(Val(CURRENT_GEOJSON))))

====
